---- MODULE Spec2Model ----
(***************************************************************************)
(* RoleRadar: the three job connectors (connectors/amazon.py,              *)
(* connectors/dassault.py, connectors/mathworks.py) as state machines.     *)
(*                                                                         *)
(* Conventions.                                                            *)
(*  - A Python str is a sequence of one-character strings, so that strip,  *)
(*    prefix tests and concatenation are computed character by character.  *)
(*  - An Optional value is a sequence of length at most one: <<>> is None  *)
(*    and <<v>> is the value v.                                            *)
(*  - A dict is the sequence of its values in insertion order (Python      *)
(*    dicts keep insertion order; assigning to an existing key keeps the   *)
(*    key's position).                                                     *)
(*  - The network is the environment: every request made by the code is    *)
(*    answered by a nondeterministic choice among a transport failure and  *)
(*    the bodies of a bounded universe.                                    *)
(***************************************************************************)
EXTENDS Integers, Sequences, FiniteSets, TLC

VARIABLES
    \* ---- scrape_amazon (connectors/amazon.py) -------------------------
    max_pages,          \* argument: Optional[int]
    all_jobs,           \* dict job_id -> Job, in insertion order
    offset,             \* offset sent with the next request
    pages_fetched,      \* non-empty pages processed
    consecutive_no_new, \* consecutive pages that added no new job_id
    amz_pc,             \* "idle" | "loop" | "done"
    amz_outcome,        \* "running" | "returned" | "raised"
    amz_result,         \* the returned list of Job
    \* history of the amazon run (not read by the code)
    requests,           \* number of calls of _request
    first_page,         \* Optional: the jobs list of the first response,
                        \* kept until a third request is made
    only_item,          \* Optional: the item x, while every response so far
                        \* carried exactly the jobs list [x]
    added_new,          \* the last processed page added a new job_id
    items_seen,         \* items returned by the responses so far, in all
    hits_reached,       \* the last non-empty response reported an integer
                        \* hit count, and the items returned so far had
                        \* reached it
    stall_streak,       \* the last non-empty pages in a row that held no
                        \* well-formed item of a job_id not seen before
    latest,             \* the well-formed items seen, the last one of each
                        \* job_id
    \* ---- scrape_dassault (connectors/dassault.py) ---------------------
    max_sitemaps,       \* argument: Optional[int]
    max_jobs,           \* argument: Optional[int]
    to_visit,           \* FIFO queue of sitemap urls
    visited,            \* set of sitemap urls
    job_urls,           \* list of discovered job urls
    seen_jobs,          \* set of discovered job urls
    urls_to_fetch,      \* the job urls the for loop of line 198 has left
    ds_jobs,            \* dict job_id -> Job, in insertion order
    ds_pc,              \* "idle" | "sitemaps" | "details" | "done"
    ds_outcome,         \* "running" | "returned" | "raised"
    ds_result,          \* the returned list of Job
    \* history of the dassault run (not read by the code)
    sitemap_log,        \* the sitemap fetches, in order: url and answer
    detail_log,         \* the detail page fetches, in order: url and answer
    \* ---- scrape_mathworks (connectors/mathworks.py) -------------------
    feed,               \* what the feed url answers during the run
    mw_pc,              \* "idle" | "call" | "done"
    mw_outcome,         \* "running" | "returned" | "raised"
    mw_result,          \* the returned list of Job
    \* ---- normalize_location, display_location (utils/location.py) ----
    loc_pc,             \* "idle" | "call" | "normalized" | "displayed"
    loc_in,             \* the arguments country, state, city: Optional[str]
    loc_key,            \* what normalize_location returned: Optional[str]
    loc_shown,          \* what display_location returned for loc_key
    \* ---- the job_id derivations of the connectors, called in turn ----
    id_pc,              \* "idle" | "calls"
    id_log              \* the calls made, in order: input and derived Job

amz_vars == <<max_pages, all_jobs, offset, pages_fetched, consecutive_no_new,
              amz_pc, amz_outcome, amz_result, requests, first_page,
              only_item, added_new, items_seen, hits_reached, stall_streak,
              latest>>

ds_vars == <<max_sitemaps, max_jobs, to_visit, visited, job_urls, seen_jobs,
             urls_to_fetch, ds_jobs, ds_pc, ds_outcome, ds_result,
             sitemap_log, detail_log>>

mw_vars == <<feed, mw_pc, mw_outcome, mw_result>>

loc_vars == <<loc_pc, loc_in, loc_key, loc_shown>>

id_vars == <<id_pc, id_log>>

vars == <<amz_vars, ds_vars, mw_vars, loc_vars, id_vars>>

-----------------------------------------------------------------------------
\* Bounds of the model

\* longest page of freely chosen items
MaxPageLen == 2
\* largest hit count a response reports
MaxHits == 2
\* largest page cap passed as max_pages
MaxPageCap == 2
\* most <loc> entries of one sitemap
MaxLocs == 2
\* largest cap passed as max_sitemaps
MaxSitemapCap == 1
\* largest cap passed as max_jobs
MaxJobCap == 1
\* most entries of the feed
MaxEntries == 2
\* most job_id derivations called in a row
MaxCalls == 2

-----------------------------------------------------------------------------
\* Optional values and Python strings

None == <<>>

Range(f) == {f[i] : i \in DOMAIN f}

SeqsUpTo(S, n) == UNION {[1..k -> S] : k \in 0..n}

Some(v) == <<v>>

IsNone(o) == o = <<>>

Get(o) == o[1]

\* characters str.strip() removes
Whitespace == {" ", "\t"}

RECURSIVE LStrip(_)
LStrip(s) ==
    IF s # <<>> /\ Head(s) \in Whitespace THEN LStrip(Tail(s)) ELSE s

RECURSIVE RStrip(_)
RStrip(s) ==
    IF s # <<>> /\ s[Len(s)] \in Whitespace
    THEN RStrip(SubSeq(s, 1, Len(s) - 1))
    ELSE s

\* str.strip()
Strip(s) == RStrip(LStrip(s))

\* str.startswith(p)
StartsWith(s, p) == Len(p) <= Len(s) /\ SubSeq(s, 1, Len(p)) = p

\* str.endswith(p)
EndsWith(s, p) ==
    Len(p) <= Len(s) /\ SubSeq(s, Len(s) - Len(p) + 1, Len(s)) = p

\* str.find(sub) + 1: the first place sub occurs at, 0 when it does not
IndexOf(s, sub) ==
    LET at(i) == SubSeq(s, i, i + Len(sub) - 1) = sub
        places == {i \in 1..(Len(s) - Len(sub) + 1) : at(i)}
    IN IF places = {} THEN 0
       ELSE CHOOSE i \in places : \A k \in places : i <= k

\* sub in s
Contains(s, sub) == IndexOf(s, sub) # 0

\* s.split(c)
RECURSIVE Split(_, _)
Split(s, c) ==
    IF IndexOf(s, <<c>>) = 0 THEN <<s>>
    ELSE <<SubSeq(s, 1, IndexOf(s, <<c>>) - 1)>>
            \o Split(SubSeq(s, IndexOf(s, <<c>>) + 1, Len(s)), c)

IsDigit(c) == c \in {"0", "1", "2", "3", "4", "5", "6", "7", "8", "9"}

UpperLetters ==
    <<"A", "B", "C", "D", "E", "F", "G", "H", "I", "J", "K", "L", "M",
      "N", "O", "P", "Q", "R", "S", "T", "U", "V", "W", "X", "Y", "Z">>

LowerLetters ==
    <<"a", "b", "c", "d", "e", "f", "g", "h", "i", "j", "k", "l", "m",
      "n", "o", "p", "q", "r", "s", "t", "u", "v", "w", "x", "y", "z">>

IsAlpha(c) == c \in Range(UpperLetters) \cup Range(LowerLetters)

LowerChar(c) ==
    IF c \in Range(UpperLetters)
    THEN LowerLetters[CHOOSE i \in 1..26 : UpperLetters[i] = c]
    ELSE c

\* str.lower()
LowerStr(s) == [i \in 1..Len(s) |-> LowerChar(s[i])]

\* the decimal digit of a small natural, as a one-character str
Digit(n) == <<"0", "1", "2", "3", "4", "5", "6", "7", "8", "9">>[n + 1]

HexDigit(n) ==
    <<"0", "1", "2", "3", "4", "5", "6", "7", "8", "9",
      "a", "b", "c", "d", "e", "f">>[n + 1]

\* the characters the modelled strings are written in, for the digest
Alphabet ==
    LowerLetters \o UpperLetters
        \o <<"0", "1", "2", "3", "4", "5", "6", "7", "8", "9",
             ":", "/", ".", "-", "_", "?", "#", " ", "\t">>

CharCode(c) ==
    IF \E i \in 1..Len(Alphabet) : Alphabet[i] = c
    THEN CHOOSE i \in 1..Len(Alphabet) : Alphabet[i] = c
    ELSE 0

RECURSIVE Mix(_, _)
Mix(h, s) ==
    IF s = <<>> THEN h
    ELSE Mix((h * 131 + CharCode(Head(s)) + 7) % 65536, Tail(s))

\* hashlib.sha256(url.encode()).hexdigest()[:16]: a digest of the bytes of
\* the url, rendered as 16 lowercase hex characters.  The digest function
\* itself is a stand-in (a polynomial checksum); what is kept is that it is
\* a fixed function of the characters, of fixed width, over [0-9a-f].
Sha256Hex16Seeded(s) ==
    LET h == Mix(Len(s) + Len(id_log), s)
        word(k) == (h * (2 * k + 1) + 40503 * k) % 65536
        nib(k, j) == (word(k) \div (<<4096, 256, 16, 1>>[j])) % 16
    IN [i \in 1..16 |-> HexDigit(nib((i - 1) \div 4, ((i - 1) % 4) + 1))]

Sha256Hex16(s) ==
    LET h == Mix(Len(s), s)
        word(k) == (h * (2 * k + 1) + 40503 * k) % 65536
        nib(k, j) == (word(k) \div (<<4096, 256, 16, 1>>[j])) % 16
    IN [i \in 1..16 |-> HexDigit(nib((i - 1) \div 4, ((i - 1) % 4) + 1))]

-----------------------------------------------------------------------------
\* utils/location.py

UpperChar(c) ==
    IF c \in Range(LowerLetters)
    THEN UpperLetters[CHOOSE i \in 1..26 : LowerLetters[i] = c]
    ELSE c

\* str.upper()
UpperStr(s) == [i \in 1..Len(s) |-> UpperChar(s[i])]

\* str.title(): a letter that follows a letter is lowercased, any other
\* letter is uppercased; characters that are no letters are kept
TitleStr(s) ==
    [i \in 1..Len(s) |->
        IF i > 1 /\ IsAlpha(s[i - 1]) THEN LowerChar(s[i]) ELSE UpperChar(s[i])]

\* re.sub(r"\s+", " ", s): every run of whitespace becomes one space
RECURSIVE CollapseSpaces(_)
CollapseSpaces(s) ==
    IF s = <<>> THEN <<>>
    ELSE IF Head(s) \in Whitespace
    THEN <<" ">> \o CollapseSpaces(LStrip(s))
    ELSE <<Head(s)>> \o CollapseSpaces(Tail(s))

\* str.replace(a, b) for one-character a and b
ReplaceChar(s, a, b) == [i \in 1..Len(s) |-> IF s[i] = a THEN b ELSE s[i]]

\* s.split(c, n): at most n splits
RECURSIVE SplitMax(_, _, _)
SplitMax(s, c, n) ==
    IF n = 0 \/ IndexOf(s, <<c>>) = 0 THEN <<s>>
    ELSE <<SubSeq(s, 1, IndexOf(s, <<c>>) - 1)>>
            \o SplitMax(SubSeq(s, IndexOf(s, <<c>>) + 1, Len(s)), c, n - 1)

\* (x or ""): the str of an Optional[str]
OrEmpty(o) == IF IsNone(o) THEN <<>> ELSE Get(o)

\* lines 6-14
CleanCity(city) ==
    IF Strip(city) = <<>> THEN <<>>
    ELSE ReplaceChar(TitleStr(CollapseSpaces(Strip(city))), " ", "_")

\* line 27
NothingGiven(c, s, ci) == c = <<>> /\ s = <<>> /\ ci = <<>>

\* line 31
LocationKeyCompact(c, s, ci) ==
    IF s = <<>> THEN c \o <<"-">> \o ci ELSE c \o <<"-">> \o s \o <<"-">> \o ci

LocationKey(c, s, ci) == c \o <<"-">> \o s \o <<"-">> \o ci

\* lines 16-31: normalize_location on three Optional[str], an Optional[str]
NormalizeLocation(country, state, city) ==
    LET c == UpperStr(Strip(OrEmpty(country)))
        s == UpperStr(Strip(OrEmpty(state)))
        ci == CleanCity(OrEmpty(city))
    IN IF NothingGiven(c, s, ci) THEN None ELSE Some(LocationKey(c, s, ci))

\* line 35: the one-character str the code returns for no key (an em dash,
\* written here as a character no key and no input holds)
NoLocation == <<"~">>

\* lines 33-43: display_location on an Optional[str]
DisplayLocation(key) ==
    IF OrEmpty(key) = <<>> THEN NoLocation
    ELSE LET parts == SplitMax(Get(key), "-", 2)
         IN IF Len(parts) # 3 THEN Get(key)
            ELSE LET city_disp == ReplaceChar(parts[3], "_", " ")
                 IN IF parts[2] # <<>>
                    THEN city_disp \o <<",", " ">> \o parts[2]
                            \o <<",", " ">> \o parts[1]
                    ELSE city_disp \o <<",", " ">> \o parts[1]

-----------------------------------------------------------------------------
\* connectors/amazon.py

\* BASE = "https://www.amazon.jobs"
BASE ==
    <<"h", "t", "t", "p", "s", ":", "/", "/", "w", "w", "w", ".",
      "a", "m", "a", "z", "o", "n", ".", "j", "o", "b", "s">>

\* the "Amazon:" of job_id = f"Amazon:{stable}"
AmazonPrefix == <<"A", "m", "a", "z", "o", "n", ":">>

\* An upstream item j of data["jobs"]: title, job_path and id as the
\* response carries them (<<>> for a missing, null or empty field), with
\* no "job_id" key and no location data.
Item(title, job_path, id) ==
    [title |-> title, job_path |-> job_path, id |-> id, job_id |-> <<>>,
     locations |-> <<>>, country_code |-> None, state |-> None,
     city |-> None]

\* An element of j["locations"] that is a dict, or the JSON str of one
\* (lines 51-58): the Optional[str] values of the six keys the code reads.
LocationDict(city, region, country) ==
    [kind |-> "dict", normalizedCityName |-> None, city |-> city,
     region |-> region, normalizedStateName |-> None,
     countryIso2a |-> country, normalizedCountryCode |-> None]

\* an element that is neither (a str that is no JSON, a number, a list)
NotADict == [LocationDict(None, None, None) EXCEPT !.kind = "other"]

\* a well-formed item with upstream id n, located by a locations dict
GoodItem(n) ==
    [Item(<<"E">>, <<"/", Digit(n)>>, <<Digit(n)>>) EXCEPT
        !.locations =
            <<LocationDict(Some(<<"s", "e", "a", "t", "t", "l", "e">>),
                           Some(<<"w", "a">>), Some(<<"u", "s">>))>>]

\* a well-formed item that carries no id: its job_id comes from the url
\* hash; its first location is no dict and it has a top-level city
NoIdItem ==
    [Item(<<" ", "E">>, <<"/", "x">>, <<>>) EXCEPT
        !.locations = <<NotADict>>,
        !.city = Some(<<"n", "e", "w", " ", " ", "y", "o", "r", "k">>)]

\* malformed items: a title of whitespace only, and a missing job_path
BlankTitleItem == Item(<<" ">>, <<"/", "b">>, <<"8">>)

NoPathItem == Item(<<"E">>, <<>>, <<"9">>)

\* the item of id 1 as the upstream lists it a second time: retitled
RetitledItem == [GoodItem(1) EXCEPT !.title = <<"F">>]

\* What the upstream has to serve, as it lists it: the item of id 1 is
\* listed twice, the second time under another title.
Catalogue ==
    <<GoodItem(1), RetitledItem, NoIdItem, BlankTitleItem, NoPathItem>>

\* the k items the catalogue lists from position i on, wrapping around
Window(i, k) ==
    [n \in 1..k |-> Catalogue[((i + n - 2) % Len(Catalogue)) + 1]]

\* the page of the two-page scenario: five well-formed items, five ids
FullPage == [n \in 1..5 |-> GoodItem(n)]

\* An item whose id no earlier response of the run carried (a listing
\* published while the run is under way).  Only the endless upstream of
\* SpecAmazonEndless serves it; each occurrence stands for another id.
FreshItem == Item(<<"E">>, <<"/", "f">>, <<"f">>)

AllItems == Range(Catalogue) \cup Range(FullPage) \cup {FreshItem}

\* data.get("jobs", []) of a response: the upstream need not honour the
\* offset or the page size, it answers any window of its catalogue of at
\* most MaxPageLen items, or the full page
Pages ==
    {Window(i, k) : i \in 1..Len(Catalogue), k \in 0..MaxPageLen}
        \cup {FullPage}

\* data.get("hits") of a response: None stands for a missing or non-int value
HitCounts == {None} \cup {Some(h) : h \in 0..MaxHits}

\* lines 139-142: title = (j.get("title") or "").strip(); job_path = ... or ""
ItemTitle(j) == Strip(j.title)

Malformed(j) == ItemTitle(j) = <<>> \/ j.job_path = <<>>

\* lines 144-148: url, stable id and job_id of a well-formed item
ItemUrl(j) == BASE \o j.job_path

\* line 147: j.get("id") or j.get("job_id") or the digest of the url
ItemStable(j) ==
    IF j.id # <<>> THEN j.id
    ELSE IF j.job_id # <<>> THEN j.job_id
    ELSE Sha256Hex16(ItemUrl(j))

ItemJobIdBare(j) == ItemStable(j)

ItemJobId(j) == AmazonPrefix \o ItemStable(j)

\* a or b on two Optional[str]
Or(a, b) == IF OrEmpty(a) # <<>> THEN a ELSE b

\* lines 34-81: _extract_amazon_location
ExtractAmazonLocation(j) ==
    IF j.locations # <<>> /\ j.locations[1].kind = "dict"
    THEN LET first == j.locations[1]
         IN NormalizeLocation(
                Or(first.countryIso2a, first.normalizedCountryCode),
                Or(first.region, first.normalizedStateName),
                Or(first.normalizedCityName, first.city))
    ELSE NormalizeLocation(j.country_code, j.state, j.city)

\* lines 150-158
ItemJob(j) ==
    [company  |-> <<"A", "m", "a", "z", "o", "n">>,
     job_id   |-> ItemJobId(j),
     title    |-> ItemTitle(j),
     url      |-> ItemUrl(j),
     location |-> ExtractAmazonLocation(j)]

\* d[job.job_id] = job on an insertion-ordered dict
DictSetKeepFirst(d, job) ==
    IF \E i \in 1..Len(d) : d[i].job_id = job.job_id
    THEN d
    ELSE Append(d, job)

DictSet(d, job) ==
    IF \E i \in 1..Len(d) : d[i].job_id = job.job_id
    THEN LET i == CHOOSE k \in 1..Len(d) : d[k].job_id = job.job_id
         IN [d EXCEPT ![i] = job]
    ELSE Append(d, job)

\* ItemJob and Malformed, tabulated once over the items of the universe
JobOfItem == [j \in AllItems |-> ItemJob(j)]

IsMalformed == [j \in AllItems |-> Malformed(j)]

\* lines 138-158: the for loop over the items of one page
RECURSIVE CollectPage(_, _)
CollectPage(d, jobs) ==
    IF jobs = <<>> THEN d
    ELSE IF IsMalformed[Head(jobs)] THEN CollectPage(d, Tail(jobs))
    ELSE CollectPage(DictSet(d, JobOfItem[Head(jobs)]), Tail(jobs))

\* line 115
PageCapReachedLate(cap, fetched) == ~IsNone(cap) /\ fetched > Get(cap)

PageCapReached(cap, fetched) == ~IsNone(cap) /\ fetched >= Get(cap)

\* line 167
StallLimitNever(n) == FALSE

StallLimitLate(n) == n > 3

StallLimitReached(n) == n >= 3

\* line 175
HitsExhaustedLate(hits, off) == ~IsNone(hits) /\ off > Get(hits)

HitsExhausted(hits, off) == ~IsNone(hits) /\ off >= Get(hits)

\* lines 162-165
NextStallCountNoReset(before, after, stalls) ==
    IF after = before THEN stalls + 1 ELSE stalls

NextStallCount(before, after, stalls) ==
    IF after = before THEN stalls + 1 ELSE 0

\* line 171 (the mutation advances by a fixed page size, the length of the
\* longest page served)
NextOffsetByPageSize(off, jobs) == off + Len(FullPage)

NextOffset(off, jobs) == off + Len(jobs)

\* lines 136-176: the rest of one iteration, after a non-empty page arrived
AfterPage(d, off, fetched, stalls, jobs, hits) ==
    LET nd == CollectPage(d, jobs)
        ns == NextStallCount(Len(d), Len(nd), stalls)
        stop1 == StallLimitReached(ns)
        noff == IF stop1 THEN off ELSE NextOffset(off, jobs)
        stop2 == ~stop1 /\ HitsExhausted(hits, noff)
    IN [all_jobs |-> nd, offset |-> noff, pages_fetched |-> fetched + 1,
        consecutive_no_new |-> ns, halt |-> stop1 \/ stop2,
        added |-> Len(nd) # Len(d)]

AmzOnly == UNCHANGED <<ds_vars, mw_vars, loc_vars, id_vars>>

AmzIdle ==
    /\ max_pages = None
    /\ all_jobs = <<>> /\ offset = 0 /\ pages_fetched = 0
    /\ consecutive_no_new = 0 /\ amz_pc = "idle" /\ amz_outcome = "running"
    /\ amz_result = <<>> /\ requests = 0 /\ first_page = None
    /\ only_item = None /\ added_new = FALSE
    /\ items_seen = 0 /\ hits_reached = FALSE /\ stall_streak = 0
    /\ latest = {}

\* lines 98-112: the call, with its argument
AmzInit ==
    /\ max_pages \in {None} \cup {Some(n) : n \in 0..MaxPageCap}
    /\ all_jobs = <<>> /\ offset = 0 /\ pages_fetched = 0
    /\ consecutive_no_new = 0 /\ amz_pc = "loop" /\ amz_outcome = "running"
    /\ amz_result = <<>> /\ requests = 0 /\ first_page = None
    /\ only_item = None /\ added_new = FALSE
    /\ items_seen = 0 /\ hits_reached = FALSE /\ stall_streak = 0
    /\ latest = {}

\* a title with a character that is no whitespace, and a job path
HasTitleAndPath(j) ==
    /\ \E i \in 1..Len(j.title) : j.title[i] \notin Whitespace
    /\ j.job_path # <<>>

\* the last well-formed item of each job_id, after the items of one page
RECURSIVE LatestAfter(_, _)
LatestAfter(seen, jobs) ==
    IF jobs = <<>> THEN seen
    ELSE IF ~HasTitleAndPath(Head(jobs)) THEN LatestAfter(seen, Tail(jobs))
    ELSE LatestAfter(
             {x \in seen : JobOfItem[x].job_id # JobOfItem[Head(jobs)].job_id}
                 \cup {Head(jobs)},
             Tail(jobs))

\* the page holds a well-formed item of a job_id not seen before
BringsNew(seen, jobs) ==
    \E i \in 1..Len(jobs) :
        /\ HasTitleAndPath(jobs[i])
        /\ \A x \in seen : JobOfItem[x].job_id # JobOfItem[jobs[i]].job_id

\* what a non-empty response adds to the history of the run
AmzPageHistory(jobs, hits) ==
    /\ items_seen' = items_seen + Len(jobs)
    /\ hits_reached' = (~IsNone(hits) /\ items_seen + Len(jobs) >= Get(hits))
    /\ stall_streak' = IF BringsNew(latest, jobs) THEN 0 ELSE stall_streak + 1
    /\ latest' = LatestAfter(latest, jobs)

AmzHistory(jobs) ==
    /\ requests' = requests + 1
    /\ first_page' = IF requests = 0 THEN Some(jobs)
                     ELSE IF requests = 1 THEN first_page ELSE None
    /\ only_item' = IF Len(jobs) = 1 /\ (requests = 0 \/ only_item = Some(jobs[1]))
                    THEN Some(jobs[1]) ELSE None

\* lines 115-116 and 178: the page cap is reached, the loop is left
AmazonCapReached ==
    /\ amz_pc = "loop"
    /\ PageCapReached(max_pages, pages_fetched)
    /\ amz_pc' = "done" /\ amz_outcome' = "returned" /\ amz_result' = all_jobs
    /\ UNCHANGED <<max_pages, all_jobs, offset, pages_fetched,
                   consecutive_no_new, requests, first_page, only_item,
                   added_new, items_seen, hits_reached, stall_streak, latest>>
    /\ AmzOnly

\* line 130 with lines 30-32: the request fails (connection error, timeout,
\* non-2xx status, body that is no JSON); no handler, the exception leaves
\* scrape_amazon
AmazonRequestFails ==
    /\ amz_pc = "loop"
    /\ ~PageCapReached(max_pages, pages_fetched)
    /\ requests' = requests + 1
    /\ only_item' = None
    /\ amz_pc' = "done" /\ amz_outcome' = "raised"
    /\ UNCHANGED <<max_pages, all_jobs, offset, pages_fetched,
                   consecutive_no_new, amz_result, first_page, added_new,
                   items_seen, hits_reached, stall_streak, latest>>
    /\ AmzOnly

\* lines 130-134 and 178: the response has no jobs
AmazonEmptyPage ==
    /\ amz_pc = "loop"
    /\ ~PageCapReached(max_pages, pages_fetched)
    /\ AmzHistory(<<>>)
    /\ amz_pc' = "done" /\ amz_outcome' = "returned" /\ amz_result' = all_jobs
    /\ UNCHANGED <<max_pages, all_jobs, offset, pages_fetched,
                   consecutive_no_new, added_new, items_seen, hits_reached,
                   stall_streak, latest>>
    /\ AmzOnly

\* lines 130-178: the response has jobs
AmazonPage ==
    /\ amz_pc = "loop"
    /\ ~PageCapReached(max_pages, pages_fetched)
    /\ \E jobs \in Pages \ {<<>>}, hits \in HitCounts :
         LET a == AfterPage(all_jobs, offset, pages_fetched,
                            consecutive_no_new, jobs, hits)
         IN /\ AmzHistory(jobs)
            /\ AmzPageHistory(jobs, hits)
            /\ all_jobs' = a.all_jobs
            /\ offset' = a.offset
            /\ pages_fetched' = a.pages_fetched
            /\ consecutive_no_new' = a.consecutive_no_new
            /\ added_new' = a.added
            /\ amz_pc' = IF a.halt THEN "done" ELSE "loop"
            /\ amz_outcome' = IF a.halt THEN "returned" ELSE "running"
            /\ amz_result' = IF a.halt THEN a.all_jobs ELSE amz_result
    /\ UNCHANGED max_pages
    /\ AmzOnly

AmazonNext ==
    \/ AmazonCapReached
    \/ AmazonRequestFails
    \/ AmazonEmptyPage
    \/ AmazonPage

-----------------------------------------------------------------------------
\* connectors/dassault.py

\* COMPANY = "Dassault Systemes"
COMPANY ==
    <<"D", "a", "s", "s", "a", "u", "l", "t", " ", "S", "y", "s", "t", "e",
      "m", "e", "s">>

\* SITEMAP_INDEX = "https://www.3ds.com/sitemap/sitemap.xml"
SITEMAP_INDEX ==
    <<"h", "t", "t", "p", "s", ":", "/", "/", "w", "w", "w", ".", "3", "d",
      "s", ".", "c", "o", "m", "/", "s", "i", "t", "e", "m", "a", "p", "/",
      "s", "i", "t", "e", "m", "a", "p", ".", "x", "m", "l">>

\* two nested sitemaps
SitemapA ==
    <<"h", "t", "t", "p", "s", ":", "/", "/", "w", "w", "w", ".", "3", "d",
      "s", ".", "c", "o", "m", "/", "s", "i", "t", "e", "m", "a", "p", "/",
      "a", ".", "x", "m", "l">>

SitemapB ==
    <<"h", "t", "t", "p", "s", ":", "/", "/", "w", "w", "w", ".", "3", "d",
      "s", ".", "c", "o", "m", "/", "s", "i", "t", "e", "m", "a", "p", "/",
      "b", ".", "x", "m", "l">>

\* two urls of the job-detail shape, one with a locale and a closing slash
JobUrl1 ==
    <<"h", "t", "t", "p", "s", ":", "/", "/", "w", "w", "w", ".", "3", "d",
      "s", ".", "c", "o", "m", "/", "c", "a", "r", "e", "e", "r", "s", "/",
      "j", "o", "b", "s", "/", "d", "e", "v", "-", "1">>

JobUrl2 ==
    <<"h", "t", "t", "p", "s", ":", "/", "/", "3", "D", "S", ".", "c", "o",
      "m", "/", "f", "r", "/", "c", "a", "r", "e", "e", "r", "s", "/", "j",
      "o", "b", "s", "/", "i", "n", "g", "-", "7", "/">>

\* urls that are neither: no numeric suffix, a foreign host, no http scheme,
\* an .xml outside /sitemap/
PlainUrl ==
    <<"h", "t", "t", "p", "s", ":", "/", "/", "w", "w", "w", ".", "3", "d",
      "s", ".", "c", "o", "m", "/", "c", "a", "r", "e", "e", "r", "s", "/",
      "j", "o", "b", "s", "/", "d", "e", "v">>

ForeignUrl ==
    <<"h", "t", "t", "p", "s", ":", "/", "/", "3", "d", "s", ".", "o", "r",
      "g", "/", "c", "a", "r", "e", "e", "r", "s", "/", "j", "o", "b", "s",
      "/", "d", "e", "v", "-", "1">>

FtpUrl ==
    <<"f", "t", "p", ":", "/", "/", "w", "w", "w", ".", "3", "d", "s", ".",
      "c", "o", "m", "/", "c", "a", "r", "e", "e", "r", "s", "/", "j", "o",
      "b", "s", "/", "d", "e", "v", "-", "1">>

OtherXml ==
    <<"h", "t", "t", "p", "s", ":", "/", "/", "w", "w", "w", ".", "3", "d",
      "s", ".", "c", "o", "m", "/", "a", ".", "x", "m", "l">>

\* the <loc> values the upstream's sitemaps are made of, as it lists them
LocList ==
    <<SitemapA, SitemapA, SitemapB, SITEMAP_INDEX, JobUrl1, PlainUrl, JobUrl2,
      ForeignUrl, JobUrl1, FtpUrl, OtherXml>>

Locs == Range(LocList)

LocWindow(i, k) ==
    [n \in 1..k |-> LocList[((i + n - 2) % Len(LocList)) + 1]]

\* _iter_sitemap_locs (lines 70-80) of a body that parses: the stripped
\* texts of its <loc> elements, in document order
SitemapBodies == {LocWindow(i, k) : i \in 1..Len(LocList), k \in 0..MaxLocs}

\* What a sitemap url answers: _get (lines 49-52) fails (connection error,
\* timeout, non-2xx status), or the body is no XML and ET.fromstring (line
\* 72) raises, or the body parses and has the locs
SitemapAnswers ==
    {[status |-> "ok", locs |-> b] : b \in SitemapBodies}
        \cup {[status |-> "fetch_error", locs |-> <<>>],
              [status |-> "parse_error", locs |-> <<>>]}

\* urlparse(url): scheme, netloc and path
SchemeEnd(url) == IndexOf(url, <<":">>)

UrlScheme(url) ==
    IF SchemeEnd(url) > 1 THEN SubSeq(url, 1, SchemeEnd(url) - 1) ELSE <<>>

AfterScheme(url) ==
    IF SchemeEnd(url) > 1
    THEN SubSeq(url, SchemeEnd(url) + 1, Len(url))
    ELSE url

\* the index of the first character of s that is in cs, or Len(s) + 1
FirstOf(s, cs) ==
    IF \E i \in 1..Len(s) : s[i] \in cs
    THEN CHOOSE i \in 1..Len(s) :
            s[i] \in cs /\ \A k \in 1..(i - 1) : s[k] \notin cs
    ELSE Len(s) + 1

HasNetloc(url) == StartsWith(AfterScheme(url), <<"/", "/">>)

AfterSlashes(url) == SubSeq(AfterScheme(url), 3, Len(AfterScheme(url)))

UrlNetloc(url) ==
    IF HasNetloc(url)
    THEN SubSeq(AfterSlashes(url), 1,
                FirstOf(AfterSlashes(url), {"/", "?", "#"}) - 1)
    ELSE <<>>

AfterNetloc(url) ==
    IF HasNetloc(url)
    THEN SubSeq(AfterSlashes(url), FirstOf(AfterSlashes(url), {"/", "?", "#"}),
                Len(AfterSlashes(url)))
    ELSE AfterScheme(url)

UrlPath(url) ==
    SubSeq(AfterNetloc(url), 1, FirstOf(AfterNetloc(url), {"?", "#"}) - 1)

\* the digits a str ends with
RECURSIVE TrailingDigits(_)
TrailingDigits(s) ==
    IF s # <<>> /\ IsDigit(s[Len(s)])
    THEN Append(TrailingDigits(SubSeq(s, 1, Len(s) - 1)), s[Len(s)])
    ELSE <<>>

\* [^?#/]+-\d+ : a non-empty text, a hyphen, and digits up to the end
IsSlugWithId(seg) ==
    LET d == TrailingDigits(seg)
        rest == SubSeq(seg, 1, Len(seg) - Len(d))
    IN /\ d # <<>>
       /\ Len(rest) >= 2
       /\ rest[Len(rest)] = "-"
       /\ \A i \in 1..Len(rest) : rest[i] \notin {"?", "#", "/"}

\* JOB_PATH_RE (line 42), matched from the start to the end of the path:
\* ^/(?:[a-z]{2}/)?careers/jobs/[^?#/]+-\d+/?$, ignoring case
JobPathMatches(path) ==
    LET parts == Split(path, "/")
        segs == IF Len(parts) >= 2 /\ parts[Len(parts)] = <<>>
                THEN SubSeq(parts, 2, Len(parts) - 1)
                ELSE SubSeq(parts, 2, Len(parts))
        core == IF Len(segs) = 4 THEN Tail(segs) ELSE segs
    IN /\ path # <<>> /\ path[1] = "/"
       /\ Len(segs) \in {3, 4}
       /\ Len(segs) = 4 =>
            (Len(segs[1]) = 2 /\ \A i \in 1..2 : IsAlpha(segs[1][i]))
       /\ LowerStr(core[1]) = <<"c", "a", "r", "e", "e", "r", "s">>
       /\ LowerStr(core[2]) = <<"j", "o", "b", "s">>
       /\ IsSlugWithId(core[3])

\* _is_job_url (lines 55-67)
IsJobUrlAnyHost(url) ==
    /\ StartsWith(UrlScheme(url), <<"h", "t", "t", "p">>)
    /\ JobPathMatches(UrlPath(url))

IsJobUrl(url) ==
    /\ StartsWith(UrlScheme(url), <<"h", "t", "t", "p">>)
    /\ EndsWith(LowerStr(UrlNetloc(url)),
        <<"3", "d", "s", ".", "c", "o", "m">>)
    /\ JobPathMatches(UrlPath(url))

\* line 107: loc.endswith(".xml") and "/sitemap/" in loc
IsSitemapLoc(loc) ==
    EndsWith(loc, <<".", "x", "m", "l">>) /\ Contains(loc,
        <<"/", "s", "i", "t", "e", "m", "a", "p", "/">>)

\* the two tests, tabulated once over the urls of the universe
JobUrlTable == [u \in Locs |-> IsJobUrl(u)]

SitemapLocTable == [u \in Locs |-> IsSitemapLoc(u)]

\* line 96
AlreadyVisitedNever(url, seen) == FALSE

AlreadyVisited(url, seen) == url \in seen

\* line 111
AlreadySeen(url, seen) == url \in seen

\* line 98: visited.add(sm_url)
MarkVisitedNot(vis, url) == vis

MarkVisited(vis, url) == vis \cup {url}

\* lines 106-113: the for loop over the locs of one sitemap, on
\* st = [to_visit, job_urls, seen_jobs] with the visited set vis
RECURSIVE CollectLocs(_, _, _)
CollectLocs(st, vis, locs) ==
    IF locs = <<>> THEN st
    ELSE LET loc == Head(locs)
             nst == IF SitemapLocTable[loc]
                    THEN IF loc \notin vis
                         THEN [st EXCEPT !.to_visit = Append(@, loc)]
                         ELSE st
                    ELSE IF JobUrlTable[loc]
                    THEN IF ~AlreadySeen(loc, st.seen_jobs)
                         THEN [st EXCEPT !.seen_jobs = @ \cup {loc},
                                         !.job_urls = Append(@, loc)]
                         ELSE st
                    ELSE st
         IN CollectLocs(nst, vis, Tail(locs))

\* NUMERIC_ID_RE (line 46) searched in the path: -(\d+)(?:/)?$
UrlNumericId(url) ==
    LET path == UrlPath(url)
        p == IF path # <<>> /\ path[Len(path)] = "/"
             THEN SubSeq(path, 1, Len(path) - 1) ELSE path
        d == TrailingDigits(p)
    IN IF d # <<>> /\ Len(p) > Len(d) /\ p[Len(p) - Len(d)] = "-"
       THEN d ELSE <<>>

\* What _parse_job_detail reads in a detail page: the text of the first h1,
\* the text of the title element, and the token after "Ref ID:" in the page
\* text (<<>> where the page has none).
\* loc is the rest of the line after "Location:" (LOCATION_RE, line 44),
\* <<>> where the page has none.
Detail(h1, title, ref) ==
    [status |-> "ok", h1 |-> h1, title |-> title, ref |-> ref, loc |-> <<>>]

DetailPages ==
    {[Detail(<<"D", "e", "v">>, <<"J", "o", "b", "s">>, <<"R", "1">>) EXCEPT
        !.loc =
            <<"U", "n", "i", "t", "e", "d", " ", "S", "t", "a", "t", "e",
              "s", ",", " ", "m", "a", " ", ",", " ", "n", "a", "t", "i",
              "c", "k">>],
     [Detail(<<"I", "n", "g">>, <<>>, <<"R", "1">>) EXCEPT
        !.loc =
            <<" ", "F", "r", "a", "n", "c", "e", ",", " ", "p", "a", "r",
              "i", "s">>],
     Detail(<<" ">>, <<"D", "e", "v">>, <<>>),
     Detail(<<>>, <<>>, <<"R", "2">>)}

\* What a job url answers: _get (lines 49-52) fails, or gives a page
DetailFetchError == [Detail(<<>>, <<>>, <<>>) EXCEPT !.status = "fetch_error"]

DetailAnswers == DetailPages \cup {DetailFetchError}

\* lines 151-156.  get_text(strip=True) strips the text it returns.
DetailTitle(page) ==
    IF Strip(page.h1) # <<>> THEN Strip(page.h1) ELSE Strip(page.title)

\* line 179
StableIdUrlFirst(page, url) ==
    IF UrlNumericId(url) # <<>> THEN UrlNumericId(url)
    ELSE IF page.ref # <<>> THEN page.ref
    ELSE Sha256Hex16(url)

StableId(page, url) ==
    IF page.ref # <<>> THEN page.ref
    ELSE IF UrlNumericId(url) # <<>> THEN UrlNumericId(url)
    ELSE Sha256Hex16(url)

\* line 131: the spellings of the United States
UsNames ==
    {
        <<"u", "n", "i", "t", "e", "d", " ", "s", "t", "a", "t", "e", "s">>,
        <<"u", "s">>,
        <<"u", "s", "a">>,

         <<"u", "n", "i", "t", "e", "d", " ", "s", "t", "a", "t", "e", "s",
           " ", "o", "f", " ", "a", "m", "e", "r", "i", "c", "a">>}

\* line 124: [p.strip() for p in loc_raw.split(",") if p.strip()]
LocationParts(loc_raw) ==
    SelectSeq([i \in 1..Len(Split(loc_raw, ",")) |->
                  Strip(Split(loc_raw, ",")[i])],
              LAMBDA p : p # <<>>)

\* lines 120-145: _normalize_ds_location
NormalizeDsLocation(loc_raw) ==
    LET parts == LocationParts(loc_raw)
        part(i) == IF Len(parts) >= i THEN parts[i] ELSE <<>>
    IN IF loc_raw = <<>> \/ parts = <<>> THEN None
       ELSE IF LowerStr(parts[1]) \in UsNames
       THEN NormalizeLocation(Some(<<"U", "S">>), Some(part(2)), Some(part(3)))
       ELSE IF Len(parts) >= 3
       THEN NormalizeLocation(Some(parts[1]), Some(parts[2]), Some(parts[3]))
       ELSE NormalizeLocation(Some(parts[1]), Some(<<>>), Some(part(2)))

\* lines 148-182: Optional[Job]
ParseJobDetail(page, url) ==
    IF DetailTitle(page) = <<>> THEN None
    ELSE Some([company  |-> COMPANY,
               job_id   |-> COMPANY \o <<":">> \o StableId(page, url),
               title    |-> DetailTitle(page),
               url      |-> url,
               location |-> NormalizeDsLocation(Strip(page.loc))])

\* _parse_job_detail, tabulated once
JobDetailTable ==
    [page \in DetailPages |->
        [u \in {JobUrl1, JobUrl2} |-> ParseJobDetail(page, u)]]

\* line 94
SitemapCapReached(cap, vis) == ~IsNone(cap) /\ Cardinality(vis) >= Get(cap)

SitemapLoopGoesOn ==
    to_visit # <<>> /\ ~SitemapCapReached(max_sitemaps, visited)

\* line 197
UrlsToFetch(urls, cap) ==
    IF IsNone(cap) THEN urls
    ELSE SubSeq(urls, 1, IF Get(cap) < Len(urls) THEN Get(cap) ELSE Len(urls))

DsIdle ==
    /\ max_sitemaps = None /\ max_jobs = None /\ to_visit = <<>>
    /\ visited = {} /\ job_urls = <<>> /\ seen_jobs = {}
    /\ urls_to_fetch = <<>> /\ ds_jobs = <<>> /\ ds_pc = "idle"
    /\ ds_outcome = "running" /\ ds_result = <<>> /\ sitemap_log = <<>>
    /\ detail_log = <<>>

\* lines 89-92 and the call of line 194, with the arguments of scrape_dassault
DsInit ==
    /\ max_sitemaps \in {None} \cup {Some(n) : n \in 1..MaxSitemapCap}
    /\ max_jobs \in {None} \cup {Some(n) : n \in 0..MaxJobCap}
    /\ to_visit = <<SITEMAP_INDEX>>
    /\ visited = {} /\ job_urls = <<>> /\ seen_jobs = {}
    /\ urls_to_fetch = <<>> /\ ds_jobs = <<>> /\ ds_pc = "sitemaps"
    /\ ds_outcome = "running" /\ ds_result = <<>> /\ sitemap_log = <<>>
    /\ detail_log = <<>>

DsOnly == UNCHANGED <<amz_vars, mw_vars, loc_vars, id_vars>>

\* lines 94-97: the url popped was visited before
SitemapSkip ==
    /\ ds_pc = "sitemaps"
    /\ SitemapLoopGoesOn
    /\ AlreadyVisited(Head(to_visit), visited)
    /\ to_visit' = Tail(to_visit)
    /\ UNCHANGED <<max_sitemaps, max_jobs, visited, job_urls, seen_jobs,
                   urls_to_fetch, ds_jobs, ds_pc, ds_outcome, ds_result,
                   sitemap_log, detail_log>>
    /\ DsOnly

\* lines 94-115: the url popped is fetched
SitemapVisit ==
    /\ ds_pc = "sitemaps"
    /\ SitemapLoopGoesOn
    /\ ~AlreadyVisited(Head(to_visit), visited)
    /\ \E answer \in SitemapAnswers :
         LET sm_url == Head(to_visit)
             vis == MarkVisited(visited, sm_url)
             st == CollectLocs([to_visit |-> Tail(to_visit),
                                job_urls |-> job_urls,
                                seen_jobs |-> seen_jobs],
                               vis, answer.locs)
         IN /\ visited' = vis
            /\ sitemap_log' =
                 Append(sitemap_log, [url |-> sm_url, answer |-> answer])
            /\ \/ \* lines 100-103: the fetch failed, the sitemap is skipped
                  /\ answer.status = "fetch_error"
                  /\ to_visit' = Tail(to_visit)
                  /\ UNCHANGED <<job_urls, seen_jobs, ds_pc, ds_outcome>>
               \/ \* line 106: the body does not parse; nothing catches the
                  \* exception, it leaves scrape_dassault
                  /\ answer.status = "parse_error"
                  /\ to_visit' = Tail(to_visit)
                  /\ ds_pc' = "done" /\ ds_outcome' = "raised"
                  /\ UNCHANGED <<job_urls, seen_jobs>>
               \/ \* lines 106-115
                  /\ answer.status = "ok"
                  /\ to_visit' = st.to_visit
                  /\ job_urls' = st.job_urls
                  /\ seen_jobs' = st.seen_jobs
                  /\ UNCHANGED <<ds_pc, ds_outcome>>
    /\ UNCHANGED <<max_sitemaps, max_jobs, urls_to_fetch, ds_jobs, ds_result,
                   detail_log>>
    /\ DsOnly

\* lines 94, 117 and 194-197: discovery returns job_urls
SitemapsDone ==
    /\ ds_pc = "sitemaps"
    /\ ~SitemapLoopGoesOn
    /\ ds_pc' = "details"
    /\ urls_to_fetch' = UrlsToFetch(job_urls, max_jobs)
    /\ UNCHANGED <<max_sitemaps, max_jobs, to_visit, visited, job_urls,
                   seen_jobs, ds_jobs, ds_outcome, ds_result, sitemap_log,
                   detail_log>>
    /\ DsOnly

\* lines 198-208: one job url
DetailVisit ==
    /\ ds_pc = "details"
    /\ urls_to_fetch # <<>>
    /\ \E answer \in DetailAnswers :
         LET url == Head(urls_to_fetch)
             job == JobDetailTable[answer][url]
         IN /\ detail_log' =
                 Append(detail_log, [url |-> url, answer |-> answer])
            /\ urls_to_fetch' = Tail(urls_to_fetch)
            /\ \/ \* lines 199-202
                  /\ answer.status = "fetch_error"
                  /\ UNCHANGED ds_jobs
               \/ \* lines 204-206
                  /\ answer.status = "ok"
                  /\ ds_jobs' = IF IsNone(job) THEN ds_jobs
                                ELSE DictSet(ds_jobs, Get(job))
    /\ UNCHANGED <<max_sitemaps, max_jobs, to_visit, visited, job_urls,
                   seen_jobs, ds_pc, ds_outcome, ds_result, sitemap_log>>
    /\ DsOnly

\* line 210
DetailsDone ==
    /\ ds_pc = "details"
    /\ urls_to_fetch = <<>>
    /\ ds_pc' = "done" /\ ds_outcome' = "returned" /\ ds_result' = ds_jobs
    /\ UNCHANGED <<max_sitemaps, max_jobs, to_visit, visited, job_urls,
                   seen_jobs, urls_to_fetch, ds_jobs, sitemap_log, detail_log>>
    /\ DsOnly

DassaultNext ==
    \/ SitemapSkip
    \/ SitemapVisit
    \/ SitemapsDone
    \/ DetailVisit
    \/ DetailsDone


-----------------------------------------------------------------------------
\* connectors/mathworks.py

MATHWORKS == <<"M", "a", "t", "h", "W", "o", "r", "k", "s">>

FeedLink1 ==
    <<"h", "t", "t", "p", "s", ":", "/", "/", "m", "w", ".", "c", "o", "m",
      "/", "j", "/", "1">>

FeedLink2 ==
    <<"h", "t", "t", "p", "s", ":", "/", "/", "m", "w", ".", "c", "o", "m",
      "/", "j", "/", "2">>

\* An entry of feed.entries: the fields scrape_mathworks reads (<<>> for a
\* field the entry lacks).
Entry(title, link, locationname) ==
    [title |-> title, link |-> link, locationname |-> locationname,
     city |-> <<>>, state |-> <<>>, country |-> <<>>]

\* two entries of the same link, two entries of another link, and malformed
\* entries: a title of whitespace only, no link, no title
FeedEntries ==
    {Entry(<<"D", "e", "v">>, FeedLink1,
        <<"U", "S", "-", "M", "A", "-", "N", "a", "t", "i", "c", "k">>),
     Entry(<<"I", "n", "g">>, FeedLink1, <<>>),
     [Entry(<<" ", "O", "p", "s">>, FeedLink2, <<>>) EXCEPT
        !.city = <<" ", "n", "a", "t", "i", "c", "k">>, !.state =
            <<"m", "a">>,
        !.country = <<"u", "s">>],
     Entry(<<" ">>, FeedLink2, <<>>),
     Entry(<<"D", "e", "v">>, <<>>, <<>>),
     Entry(<<>>, FeedLink1, <<>>),
     Entry(<<"O", "p", "s">>, FeedLink2,
         <<"N", "a", "t", "i", "c", "k", ",", " ", "M", "A">>)}

\* lines 45-48: the request fails, or feedparser gives the entries of the
\* body (feedparser.parse does not raise on a malformed body)
FeedAnswers ==
    {[status |-> "ok", entries |-> es] :
        es \in SeqsUpTo(FeedEntries, MaxEntries)}
        \cup {[status |-> "fetch_error", entries |-> <<>>]}

\* lines 52-55
EntryMalformed(e) == Strip(e.title) = <<>> \/ e.link = <<>>

\* lines 23-36: extract_location_from_entry
ExtractLocationFromEntry(e) ==
    IF Strip(e.locationname) # <<>> THEN Some(Strip(e.locationname))
    ELSE NormalizeLocation(Some(Strip(e.country)), Some(Strip(e.state)),
                           Some(Strip(e.city)))

\* lines 57-59
EntryJob(e) ==
    [company  |-> MATHWORKS,
     job_id   |-> MATHWORKS \o <<":">> \o Sha256Hex16(e.link),
     title    |-> Strip(e.title),
     url      |-> e.link,
     location |-> ExtractLocationFromEntry(e)]

\* EntryJob, tabulated once
EntryJobTable == [e \in FeedEntries |-> EntryJob(e)]

\* lines 50-59: jobs.append for every entry that has a title and a link
RECURSIVE CollectEntries(_, _)
CollectEntries(jobs, entries) ==
    IF entries = <<>> THEN jobs
    ELSE IF EntryMalformed(Head(entries))
    THEN CollectEntries(jobs, Tail(entries))
    ELSE CollectEntries(Append(jobs, EntryJobTable[Head(entries)]),
                        Tail(entries))

MwIdle ==
    /\ feed = [status |-> "ok", entries |-> <<>>]
    /\ mw_pc = "idle" /\ mw_outcome = "running" /\ mw_result = <<>>

\* the call, and what the feed url answers
MwInit ==
    /\ feed \in FeedAnswers
    /\ mw_pc = "call" /\ mw_outcome = "running" /\ mw_result = <<>>

MwOnly == UNCHANGED <<amz_vars, ds_vars, loc_vars, id_vars>>

\* lines 45-46: the request fails, requests.get or raise_for_status raises
MathworksFetchFails ==
    /\ mw_pc = "call"
    /\ feed.status = "fetch_error"
    /\ mw_pc' = "done" /\ mw_outcome' = "raised"
    /\ UNCHANGED <<feed, mw_result>>
    /\ MwOnly

\* lines 45-61
MathworksScrape ==
    /\ mw_pc = "call"
    /\ feed.status = "ok"
    /\ mw_pc' = "done" /\ mw_outcome' = "returned"
    /\ mw_result' = CollectEntries(<<>>, feed.entries)
    /\ UNCHANGED feed
    /\ MwOnly

MathworksNext ==
    \/ MathworksFetchFails
    \/ MathworksScrape

-----------------------------------------------------------------------------
\* utils/location.py called on its own: normalize_location on one triple,
\* then display_location on the key it gave

\* the texts a component is drawn from: lower case, padded, upper case, two
\* words apart by two spaces, an underscore, a quote, a hyphen, blank, empty
LocationTexts ==
    {<<>>,
     <<" ", "\t">>,
     <<"u", "s">>,
     <<" ", "m", "a", " ">>,
     <<"n", "a", "t", "i", "c", "k">>,
     <<"N", "A", "T", "I", "C", "K">>,
     <<"n", "e", "w", " ", " ", "y", "o", "r", "k">>,
     <<"a", "_", "b">>,
     <<"s", "t", "-", "l", "o">>}

LocationInputs == {None} \cup {Some(t) : t \in LocationTexts}

LocIdle ==
    /\ loc_pc = "idle" /\ loc_key = None /\ loc_shown = <<>>
    /\ loc_in = [country |-> None, state |-> None, city |-> None]

LocInit ==
    /\ loc_pc = "call" /\ loc_key = None /\ loc_shown = <<>>
    /\ loc_in \in [country : LocationInputs, state : LocationInputs,
                   city : LocationInputs]

LocOnly == UNCHANGED <<amz_vars, ds_vars, mw_vars, id_vars>>

\* location.py lines 16-31
NormalizeCall ==
    /\ loc_pc = "call"
    /\ loc_key' = NormalizeLocation(loc_in.country, loc_in.state, loc_in.city)
    /\ loc_pc' = "normalized"
    /\ UNCHANGED <<loc_in, loc_shown>>
    /\ LocOnly

\* location.py lines 33-43
DisplayCall ==
    /\ loc_pc = "normalized"
    /\ loc_shown' = DisplayLocation(loc_key)
    /\ loc_pc' = "displayed"
    /\ UNCHANGED <<loc_in, loc_key>>
    /\ LocOnly

LocationNext ==
    \/ NormalizeCall
    \/ DisplayCall

-----------------------------------------------------------------------------
\* The job_id derivations of the three connectors, called one after another
\* on inputs of their own: lines 144-158 of amazon.py on an item,
\* _parse_job_detail on a page and a url, lines 57-59 of mathworks.py on a
\* feed entry.

\* well-formed items: with an "id", with no id, with a "job_id" only, with
\* both, and the item with no id under another title
IdentityItems ==
    {GoodItem(1),
     NoIdItem,
     [NoIdItem EXCEPT !.title = <<"F">>],
     [NoIdItem EXCEPT !.job_id = <<"J", "7">>],
     [GoodItem(1) EXCEPT !.job_id = <<"J", "7">>]}

\* detail pages that have a title, with and without a reference id
IdentityPages == {page \in DetailPages : DetailTitle(page) # <<>>}

\* job urls with a numeric suffix, and one without
IdentityUrls == {JobUrl1, JobUrl2, PlainUrl}

\* feed entries with a title and a link
IdentityEntries == {e \in FeedEntries : ~EntryMalformed(e)}

\* one call: the connector, the preferred identifiers the input carries in
\* the order the code consults them, the url, and the Job derived
IdentityCall(connector, ids, url, job) ==
    [connector |-> connector, ids |-> ids, url |-> url, job |-> job]

IdIdle == id_pc = "idle" /\ id_log = <<>>

IdInit == id_pc = "calls" /\ id_log = <<>>

IdOnly == UNCHANGED <<amz_vars, ds_vars, mw_vars, loc_vars>>

\* amazon.py lines 144-158
ResolveAmazon ==
    /\ id_pc = "calls" /\ Len(id_log) < MaxCalls
    /\ \E j \in IdentityItems :
         id_log' = Append(id_log,
             IdentityCall("amazon", <<j.id, j.job_id>>, ItemUrl(j),
                          ItemJob(j)))
    /\ UNCHANGED id_pc
    /\ IdOnly

\* dassault.py lines 148-182
ResolveDassault ==
    /\ id_pc = "calls" /\ Len(id_log) < MaxCalls
    /\ \E page \in IdentityPages, url \in IdentityUrls :
         id_log' = Append(id_log,
             IdentityCall("dassault", <<page.ref, UrlNumericId(url)>>, url,
                          Get(ParseJobDetail(page, url))))
    /\ UNCHANGED id_pc
    /\ IdOnly

\* mathworks.py lines 57-59
ResolveMathworks ==
    /\ id_pc = "calls" /\ Len(id_log) < MaxCalls
    /\ \E e \in IdentityEntries :
         id_log' = Append(id_log,
             IdentityCall("mathworks", <<>>, e.link, EntryJob(e)))
    /\ UNCHANGED id_pc
    /\ IdOnly

IdentityNext ==
    \/ ResolveAmazon
    \/ ResolveDassault
    \/ ResolveMathworks

-----------------------------------------------------------------------------
\* The specifications: one call of one connector each, or the calls of the
\* pure functions

InitAmazon == AmzInit /\ DsIdle /\ MwIdle /\ LocIdle /\ IdIdle

InitDassault == DsInit /\ AmzIdle /\ MwIdle /\ LocIdle /\ IdIdle

InitMathworks == MwInit /\ AmzIdle /\ DsIdle /\ LocIdle /\ IdIdle

InitLocation == LocInit /\ AmzIdle /\ DsIdle /\ MwIdle /\ IdIdle

InitIdentity == IdInit /\ AmzIdle /\ DsIdle /\ MwIdle /\ LocIdle

SpecAmazon == InitAmazon /\ [][AmazonNext]_vars

SpecDassault == InitDassault /\ [][DassaultNext]_vars

\* scrape_dassault when every step that can be taken is taken: each request
\* is answered or fails within TIMEOUT (line 35), and the loops then go on
\* by themselves
SpecDassaultFair ==
    InitDassault /\ [][DassaultNext]_vars /\ WF_vars(DassaultNext)

SpecMathworks == InitMathworks /\ [][MathworksNext]_vars

SpecLocation == InitLocation /\ [][LocationNext]_vars

SpecIdentity == InitIdentity /\ [][IdentityNext]_vars


-----------------------------------------------------------------------------
\* scrape_amazon against an upstream that never runs out of new listings.
\*
\* Python's int and dict are unbounded, so such a run has infinitely many
\* states.  They are folded onto finitely many without changing any test
\* the code makes: offset is kept up to MaxHits (line 175 compares it with
\* hits <= MaxHits only), pages_fetched up to MaxPageCap (line 115 compares
\* it with max_pages <= MaxPageCap only), and the Job of a FreshItem is
\* dropped from all_jobs once its page is processed (no later item has its
\* job_id, so it never decides line 162 again).  consecutive_no_new is kept
\* up to 3 (line 167 compares it with 3 only; the code never lets it pass 3).
\* The history variable requests counts the pages that had jobs modulo 2
\* here, so that every iteration remains a change of state, as it is in the
\* code, where offset grows; the other history variables are left alone.

Saturate(n, cap) == IF n > cap THEN cap ELSE n

IsFreshJob(job) == job.job_id = ItemJobId(FreshItem)

Forget(d) == SelectSeq(d, LAMBDA job : ~IsFreshJob(job))

EndlessPages == Pages \cup {<<FreshItem>>}

AmazonEndlessPage ==
    /\ amz_pc = "loop"
    /\ ~PageCapReached(max_pages, pages_fetched)
    /\ \E jobs \in EndlessPages \ {<<>>}, hits \in HitCounts :
         LET a == AfterPage(all_jobs, offset, pages_fetched,
                            consecutive_no_new, jobs, hits)
         IN /\ all_jobs' = Forget(a.all_jobs)
            /\ offset' = Saturate(a.offset, MaxHits)
            /\ pages_fetched' = Saturate(a.pages_fetched, MaxPageCap)
            /\ consecutive_no_new' = Saturate(a.consecutive_no_new, 3)
            /\ added_new' = a.added
            /\ amz_pc' = IF a.halt THEN "done" ELSE "loop"
            /\ amz_outcome' = IF a.halt THEN "returned" ELSE "running"
            /\ amz_result' = IF a.halt THEN a.all_jobs ELSE amz_result
    /\ requests' = (requests + 1) % 2
    /\ UNCHANGED <<max_pages, first_page, only_item, items_seen, hits_reached,
                   stall_streak, latest>>
    /\ AmzOnly

AmazonEndlessNext ==
    \/ AmazonCapReached
    \/ AmazonRequestFails
    \/ AmazonEmptyPage
    \/ AmazonEndlessPage

\* Every request is answered or fails within its timeout (line 30), and the
\* loop then goes on by itself: an iteration that can be made is made.
SpecAmazonEndless ==
    InitAmazon /\ [][AmazonEndlessNext]_vars /\ WF_vars(AmazonEndlessNext)

-----------------------------------------------------------------------------
\* Claims about scrape_amazon

\* C1: a transport failure on a page request after the first is swallowed:
\* the run is never aborted by it, scrape still returns the Jobs collected.
\* Stated on the runs: a run that ends by raising made one request only.
C1_LaterFailureSwallowed == amz_outcome = "raised" => requests <= 1

\* C4 as claimed: the pagination loop halts, whatever the upstream answers.
C4_AlwaysTerminates == <>(amz_pc = "done")

\* C4 as amended: the pagination loop halts unless pages keep adding new
\* job_ids for ever (a run that does not halt has infinitely many pages
\* that each add a job_id not collected before).
C4_HaltsUnlessEndless ==
    <>(amz_pc = "done") \/ []<>(amz_pc = "loop" /\ added_new)

\* C4 witness: a run ended by the stall count reaching its ceiling.
C4_Witness ==
    /\ amz_pc = "done" /\ amz_outcome = "returned"
    /\ consecutive_no_new = 3 /\ IsNone(max_pages) /\ Len(amz_result) = 1

\* C5: with no page cap, when every response carries the same single
\* well-formed item, at most 4 requests are made (the 4th ends the run) and
\* the run returns exactly one Job, whatever hit counts are reported.
C5_SameItemHalts ==
    (IsNone(max_pages) /\ ~IsNone(only_item) /\ HasTitleAndPath(Get(only_item)))
        => /\ requests <= 4
           /\ requests = 4 => amz_pc = "done"
           /\ amz_pc = "done" => (amz_outcome = "returned" /\ Len(amz_result) = 1)

\* C5 witness: the fourth request of such a run has been answered.
C5_Witness ==
    /\ IsNone(max_pages) /\ ~IsNone(only_item)
    /\ HasTitleAndPath(Get(only_item))
    /\ requests = 4 /\ consecutive_no_new = 3 /\ amz_pc = "done"

\* C8: with max_pages = N at most N requests are made; with N = 0 none is
\* made and the empty collection is returned.
C8_PageCap ==
    ~IsNone(max_pages)
        => /\ requests <= Get(max_pages)
           /\ (Get(max_pages) = 0 /\ amz_pc = "done")
                 => (requests = 0 /\ amz_outcome = "returned" /\ amz_result = <<>>)

\* C8 witness: a run stopped by the cap after N = MaxPageCap pages that each
\* asked for more (no stall, hits not exhausted).
C8_Witness ==
    /\ max_pages = Some(MaxPageCap) /\ requests = MaxPageCap
    /\ pages_fetched = MaxPageCap /\ consecutive_no_new = 0
    /\ amz_pc = "done" /\ amz_outcome = "returned"

\* five items, each with a title and a job path, with pairwise different ids
FiveDistinct(p) ==
    /\ Len(p) = 5
    /\ \A i \in 1..5 : HasTitleAndPath(p[i]) /\ p[i].id # <<>>
    /\ \A i, k \in 1..5 : i # k => p[i].id # p[k].id

\* the run made two requests: the first answered by five such items, the
\* second by no items (the only second answer that leaves pages_fetched at 1
\* and lets the run return)
TwoPageRun ==
    /\ amz_pc = "done" /\ amz_outcome = "returned"
    /\ requests = 2 /\ pages_fetched = 1
    /\ ~IsNone(first_page) /\ FiveDistinct(Get(first_page))

\* C9: a first page of 5 such items and a second page of 0 items give exactly
\* 5 Jobs, each job_id being "Amazon:" followed by a non-empty stable id.
C9_FiveThenZero ==
    TwoPageRun
        => /\ Len(amz_result) = 5
           /\ \A i \in 1..Len(amz_result) :
                 /\ StartsWith(amz_result[i].job_id, AmazonPrefix)
                 /\ Len(amz_result[i].job_id) > Len(AmazonPrefix)

C9_Witness == TwoPageRun /\ Len(amz_result) = 5

-----------------------------------------------------------------------------
\* Claims about the first request, failures and job_id uniqueness

NoDuplicates(q) == \A i, k \in 1..Len(q) : i # k => q[i] # q[k]

JobIds(jobs) == [i \in 1..Len(jobs) |-> jobs[i].job_id]

\* the first sitemap fetch of the run, of the root sitemap, failed
RootFetchFailed ==
    /\ sitemap_log # <<>>
    /\ sitemap_log[1].url = SITEMAP_INDEX
    /\ sitemap_log[1].answer.status = "fetch_error"

\* C2: a transport failure on the first request of the traversal is fatal:
\* scrape raises instead of returning Jobs.  Stated for scrape_dassault,
\* whose first request is the fetch of the root sitemap.
C2_FirstFailureFatal == RootFetchFailed => ds_outcome # "returned"

\* C2 for the other two connectors, where it holds
C2_AmazonFirstFailureFatal ==
    (amz_pc = "done" /\ requests = 1 /\ IsNone(first_page)
        /\ ~PageCapReached(max_pages, 0))
        => amz_outcome = "raised"

C2_MathworksFirstFailureFatal ==
    (mw_pc = "done" /\ feed.status = "fetch_error") => mw_outcome = "raised"

\* C3: a failure on one sitemap or detail page, a fetch failure or a parse
\* failure, is caught and only that node is skipped: scrape_dassault
\* returns normally.  Stated for the nodes after the root sitemap: a run
\* that raised had fetched the root only.
C3_FailureIsolated == ds_outcome = "raised" => Len(sitemap_log) <= 1

\* C3 for the fetch failures alone, where it holds: a run in which no
\* sitemap body failed to parse does not raise
C3_FetchFailureIsolated ==
    (\A i \in 1..Len(sitemap_log) :
        sitemap_log[i].answer.status # "parse_error")
        => ds_outcome # "raised"

\* C6: no sitemap url is fetched twice in a run.
C6_SitemapFetchedOnce ==
    \A i, k \in 1..Len(sitemap_log) :
        i # k => sitemap_log[i].url # sitemap_log[k].url

\* C6 witness: the root listed one sitemap twice, that sitemap listed the
\* root again, and discovery has ended with every queued url handled.
C6_Witness ==
    /\ ds_pc = "details" /\ IsNone(max_sitemaps) /\ to_visit = <<>>
    /\ Len(sitemap_log) >= 2
    /\ sitemap_log[1].answer.locs = <<SitemapA, SitemapA>>
    /\ SITEMAP_INDEX \in Range(sitemap_log[2].answer.locs)

\* C7: the collection a connector returns holds no two Jobs of the same
\* job_id.  Stated for scrape_mathworks.
C7_UniqueJobIds == mw_pc = "done" => NoDuplicates(JobIds(mw_result))

\* C7 for the other two connectors, where it holds
C7_AmazonUniqueJobIds == NoDuplicates(JobIds(amz_result))

C7_DassaultUniqueJobIds == NoDuplicates(JobIds(ds_result))

\* the urls of the universe that have the job-detail shape, and those that
\* are nested sitemaps
JobShapedLocs == {JobUrl1, JobUrl2}

SitemapLocs == {SITEMAP_INDEX, SitemapA, SitemapB}

\* the locs of the sitemaps fetched and parsed so far
LocsServed ==
    UNION {Range(sitemap_log[i].answer.locs) : i \in 1..Len(sitemap_log)}

\* the index listed one nested sitemap, which listed one url of the
\* job-detail shape and one that has neither shape; discovery has ended
IndexNestedScenario ==
    /\ ds_pc \in {"details", "done"}
    /\ Len(sitemap_log) = 2
    /\ \E nested \in SitemapLocs \ {SITEMAP_INDEX} :
         /\ sitemap_log[1].answer = [status |-> "ok", locs |-> <<nested>>]
         /\ sitemap_log[2].url = nested
    /\ sitemap_log[2].answer.status = "ok"
    /\ sitemap_log[2].answer.locs \in
         {<<JobUrl1, PlainUrl>>, <<JobUrl2, ForeignUrl>>}

\* C10: discovery on an index that lists one nested sitemap, which lists
\* one matching and one non-matching url, gives exactly the matching url;
\* and the job url list always holds each matching url served once, with
\* no duplicates and no other url.
C10_Discovery ==
    /\ NoDuplicates(job_urls)
    /\ Range(job_urls) = LocsServed \cap JobShapedLocs
    /\ IndexNestedScenario =>
         (Len(job_urls) = 1 /\ job_urls[1] \in Range(sitemap_log[2].answer.locs))

C10_Witness == IndexNestedScenario /\ job_urls = <<JobUrl1>>

-----------------------------------------------------------------------------
\* Claims about normalize_location and display_location

\* the text of an argument, "" for a missing one
TextOf(o) == IF o = <<>> THEN <<>> ELSE o[1]

\* a text that trimming leaves nothing of
Blank(t) == \A i \in 1..Len(t) : t[i] \in Whitespace

\* the words of a text: its maximal runs of characters that are no
\* whitespace, in order
RECURSIVE Words(_)
Words(t) ==
    IF Blank(t) THEN <<>>
    ELSE LET body == LStrip(t)
             ends == {i \in 1..Len(body) : body[i] \in Whitespace}
             stop == IF ends = {} THEN Len(body) + 1
                     ELSE CHOOSE i \in ends : \A k \in ends : i <= k
         IN <<SubSeq(body, 1, stop - 1)>>
                \o Words(SubSeq(body, stop, Len(body)))

\* the words of q, joined by the character c
RECURSIVE JoinWords(_, _)
JoinWords(q, c) ==
    IF q = <<>> THEN <<>>
    ELSE IF Len(q) = 1 THEN q[1]
    ELSE q[1] \o <<c>> \o JoinWords(Tail(q), c)

\* the words of the city, each title-cased, joined by the character c
TitledCity(city, c) ==
    JoinWords([i \in 1..Len(Words(city)) |-> TitleStr(Words(city)[i])], c)

HyphenCount(t) == Cardinality({i \in 1..Len(t) : t[i] = "-"})

\* C13: normalize_location returns None exactly when the three arguments
\* are empty or missing after trimming; otherwise it returns COUNTRY "-"
\* STATE "-" CITY, with the trimmed country and state uppercased and the
\* city's words title-cased and joined by underscores, so that the key has
\* at least two hyphens; normalize("us", "ma", "natick") is "US-MA-Natick".
C13_NormalizeShape ==
    loc_pc \in {"normalized", "displayed"} =>
        LET c == TextOf(loc_in.country)
            s == TextOf(loc_in.state)
            ci == TextOf(loc_in.city)
        IN /\ IsNone(loc_key) <=> (Blank(c) /\ Blank(s) /\ Blank(ci))
           /\ ~IsNone(loc_key) =>
                /\ Get(loc_key) = UpperStr(Strip(c)) \o <<"-">>
                      \o UpperStr(Strip(s)) \o <<"-">> \o TitledCity(ci, "_")
                /\ HyphenCount(Get(loc_key)) >= 2
           /\ (c = <<"u", "s">> /\ s = <<" ", "m", "a", " ">>
                 /\ ci = <<"n", "a", "t", "i", "c", "k">>)
                => loc_key = Some(<<"U", "S", "-", "M", "A", "-",
                                   "N", "a", "t", "i", "c", "k">>)

\* C13 witness: a country and a two-word city with no state were normalized
\* to a key whose two hyphens are adjacent.
C13_Witness ==
    /\ loc_pc = "normalized"
    /\ loc_in.country = Some(<<"u", "s">>) /\ loc_in.state = None
    /\ loc_in.city = Some(<<"n", "e", "w", " ", " ", "y", "o", "r", "k">>)
    /\ loc_key = Some(<<"U", "S", "-", "-", "N", "e", "w", "_",
                        "Y", "o", "r", "k">>)

\* no argument holds a literal hyphen
NoHyphenGiven ==
    /\ HyphenCount(TextOf(loc_in.country)) = 0
    /\ HyphenCount(TextOf(loc_in.state)) = 0
    /\ HyphenCount(TextOf(loc_in.city)) = 0

\* C14: for a triple with no literal hyphen in it,
\* display_location(normalize_location(country, state, city)) contains the
\* title-cased city, the state and the country.  Stated in its weakest
\* reading: the city with its words title-cased and one space apart, the
\* state and the country as the key carries them (trimmed, uppercased).
C14_RoundTrip ==
    (loc_pc = "displayed" /\ NoHyphenGiven) =>
        /\ Contains(loc_shown, TitledCity(TextOf(loc_in.city), " "))
        /\ Contains(loc_shown, UpperStr(Strip(TextOf(loc_in.state))))
        /\ Contains(loc_shown, UpperStr(Strip(TextOf(loc_in.country))))

\* C14 where it holds: the triples whose city has no underscore either
C14_RoundTripNoUnderscore ==
    (loc_pc = "displayed" /\ NoHyphenGiven
        /\ ~Contains(TextOf(loc_in.city), <<"_">>)) =>
        /\ Contains(loc_shown, TitledCity(TextOf(loc_in.city), " "))
        /\ Contains(loc_shown, UpperStr(Strip(TextOf(loc_in.state))))
        /\ Contains(loc_shown, UpperStr(Strip(TextOf(loc_in.country))))

-----------------------------------------------------------------------------
\* Claims about the location field of the Jobs

\* a text with no lowercase letter and no whitespace at either end
IsUpperTrimmed(t) ==
    /\ \A i \in 1..Len(t) : t[i] \notin Range(LowerLetters)
    /\ Strip(t) = t

\* a canonical location key: COUNTRY "-" STATE "-" CITY, country and state
\* uppercased and trimmed, the city with no whitespace left in it
IsCanonicalKey(k) ==
    /\ HyphenCount(k) >= 2
    /\ LET parts == SplitMax(k, "-", 2)
       IN /\ IsUpperTrimmed(parts[1])
          /\ IsUpperTrimmed(parts[2])
          /\ \A i \in 1..Len(parts[3]) : parts[3][i] \notin Whitespace

CanonicalLocations(jobs) ==
    \A i \in 1..Len(jobs) :
        IsNone(jobs[i].location) \/ IsCanonicalKey(Get(jobs[i].location))

\* C15: the location of every Job a connector emits is absent or a canonical
\* location key, whatever the upstream sent.  Stated for scrape_mathworks.
C15_CanonicalLocation == CanonicalLocations(mw_result)

\* C15 for the other two connectors, where it holds
C15_AmazonCanonicalLocation == CanonicalLocations(all_jobs)

C15_DassaultCanonicalLocation == CanonicalLocations(ds_jobs)

\* C15 for the feed entries that carry no pre-formatted location
C15_BuiltLocationCanonical ==
    \A e \in FeedEntries :
        Strip(e.locationname) = <<>> =>
            CanonicalLocations(<<EntryJobTable[e]>>)

-----------------------------------------------------------------------------
\* Claims about the derivation of job_id

\* the company a connector emits its Jobs under
CompanyOf(connector) ==
    IF connector = "amazon" THEN <<"A", "m", "a", "z", "o", "n">>
    ELSE IF connector = "dassault" THEN COMPANY
    ELSE MATHWORKS

\* the first non-empty identifier of ids, <<>> when there is none
RECURSIVE FirstNonEmpty(_)
FirstNonEmpty(ids) ==
    IF ids = <<>> THEN <<>>
    ELSE IF Head(ids) # <<>> THEN Head(ids)
    ELSE FirstNonEmpty(Tail(ids))

IsHex16(t) ==
    /\ Len(t) = 16
    /\ \A i \in 1..16 : \E n \in 0..15 : t[i] = HexDigit(n)

\* the stable id of a Job: its job_id after "<company>:"
StableOf(job) ==
    SubSeq(job.job_id, Len(job.company) + 2, Len(job.job_id))

\* C11: the stable id is the first non-empty preferred identifier in
\* priority order (reference id then numeric url suffix in the sitemap
\* connector, the upstream ids of the item in the paginated connector, none
\* in the feed connector) and the 16-hex-character url hash only when all
\* are empty; the job_id is always "<company>:<stable id>".
C11_IdentityResolution ==
    \A i \in 1..Len(id_log) :
        LET call == id_log[i]
            preferred == FirstNonEmpty(call.ids)
        IN /\ call.job.company = CompanyOf(call.connector)
           /\ call.job.job_id = call.job.company \o <<":">> \o StableOf(call.job)
           /\ preferred # <<>> => StableOf(call.job) = preferred
           /\ preferred = <<>> =>
                /\ IsHex16(StableOf(call.job))
                /\ StableOf(call.job) = Sha256Hex16(call.url)

\* C11 witness: the sitemap connector derived an id from a page with a
\* reference id at a url with a numeric suffix, and then fell back on the
\* hash for a page without a reference id at a url without a suffix.
C11_Witness ==
    /\ Len(id_log) = 2
    /\ \A i \in 1..2 : id_log[i].connector = "dassault"
    /\ id_log[1].ids[1] # <<>> /\ id_log[1].ids[2] # <<>>
    /\ id_log[1].job.job_id = COMPANY \o <<":">> \o id_log[1].ids[1]
    /\ id_log[2].ids = <<<<>>, <<>>>>
    /\ IsHex16(StableOf(id_log[2].job))

\* a call whose input carried no preferred identifier
NoPreferredId(call) == FirstNonEmpty(call.ids) = <<>>

-----------------------------------------------------------------------------
\* Claims about the pagination of scrape_amazon

\* C16: after each non-empty page the stall count is the number of most
\* recent pages in a row that added no new job_id (a page of only repeated
\* or only malformed items adds one to it, a page with a new job_id resets
\* it); it never exceeds 3 and the run is over once it has reached 3.
C16_StallCount ==
    /\ consecutive_no_new = stall_streak
    /\ consecutive_no_new <= 3
    /\ consecutive_no_new = 3 => amz_pc = "done"

\* C16 witness: four pages, of which the third added a new job_id and the
\* fourth did not.
C16_Witness ==
    /\ amz_pc = "loop" /\ pages_fetched = 4 /\ requests = 4
    /\ consecutive_no_new = 1 /\ Len(all_jobs) = 2

\* C17: the offset sent with a request is the number of items all earlier
\* responses of the run returned, malformed and repeated ones too; the
\* first request is sent with offset 0 and the offset never decreases.
C17_OffsetIsItemsSeen ==
    [][/\ requests' # requests =>
            /\ offset = items_seen
            /\ requests = 0 => offset = 0
       /\ offset' >= offset]_vars

\* C17 witness: a request is about to be made with an offset that is not a
\* multiple of any page size: a page of two items and a page of one, a
\* malformed one among them, came before.
C17_Witness ==
    /\ amz_pc = "loop" /\ requests = 2 /\ offset = 3 /\ items_seen = 3
    /\ Len(all_jobs) < 3

\* C18: when a response reports an integer hit count and the offset, after
\* that page's items are added, has reached it, the run halts: no request
\* is made at an offset that has reached the hit count of the response
\* before it.
C18_HitsHalt ==
    [][requests' # requests => ~hits_reached]_vars

\* C18 witness: the run returned because the offset reached the hit count
\* the last response reported, with no stall and no page cap.
C18_Witness ==
    /\ amz_pc = "done" /\ amz_outcome = "returned" /\ IsNone(max_pages)
    /\ consecutive_no_new = 0 /\ pages_fetched = 2
    /\ hits_reached /\ offset = MaxHits

\* C20: when scrape_amazon returns, the job_ids of its result are exactly
\* those of the well-formed items of the pages fetched; every Job has a
\* title and a url, and is the Job of the last item seen with its job_id.
C20_ResultIsWellFormedItems ==
    (amz_pc = "done" /\ amz_outcome = "returned") =>
        /\ {amz_result[i].job_id : i \in 1..Len(amz_result)}
              = {ItemJobId(x) : x \in latest}
        /\ \A i \in 1..Len(amz_result) :
              /\ amz_result[i].title # <<>>
              /\ amz_result[i].url # <<>>
              /\ \E x \in latest :
                    /\ amz_result[i].job_id = ItemJobId(x)
                    /\ amz_result[i].title = Strip(x.title)
                    /\ amz_result[i].url = BASE \o x.job_path

\* C20 witness: the run returned after the item of id 1 was seen under two
\* titles, the retitled one last, and a malformed item was seen too.
C20_Witness ==
    /\ amz_pc = "done" /\ amz_outcome = "returned"
    /\ RetitledItem \in latest
    /\ items_seen > Cardinality(latest) + 1
    /\ \E i \in 1..Len(amz_result) : amz_result[i].title = <<"F">>
    /\ pages_fetched >= 2

-----------------------------------------------------------------------------
\* Claims about the termination of sitemap discovery

\* discovery has returned its list of job urls, the queue being empty
DiscoveryReturned == ds_pc \in {"details", "done"} /\ ds_outcome # "raised"

\* a sitemap body did not parse
ParseFailed ==
    \E i \in 1..Len(sitemap_log) :
        sitemap_log[i].answer.status = "parse_error"

\* C19: with no sitemap cap, discovery ends on every finite sitemap graph,
\* with cycles, sitemaps listed by several parents and failed fetches: no
\* more fetches are made than the graph has sitemap urls, and the queue
\* eventually empties and the job urls are returned (unless a body that was
\* fetched does not parse).
C19_DiscoveryTerminates ==
    /\ [](Len(sitemap_log) <= Cardinality(SitemapLocs))
    /\ [](DiscoveryReturned /\ IsNone(max_sitemaps) => to_visit = <<>>)
    /\ IsNone(max_sitemaps) => <>(DiscoveryReturned \/ ParseFailed)

\* C19 witness: with no cap, the root listed itself and a nested sitemap
\* twice, the fetch of the nested sitemap failed, and discovery returned.
C19_Witness ==
    /\ IsNone(max_sitemaps) /\ DiscoveryReturned /\ to_visit = <<>>
    /\ Len(sitemap_log) = 2
    /\ sitemap_log[1].answer.status = "ok"
    /\ \E nested \in SitemapLocs \ {SITEMAP_INDEX} :
         /\ sitemap_log[1].answer.locs \in
               {<<SITEMAP_INDEX, nested>>, <<nested, nested>>}
         /\ sitemap_log[2].url = nested
    /\ sitemap_log[2].answer.status = "fetch_error"

====
